---- MODULE Spec2Model ----
(***************************************************************************)
(* Iris ML Service (service/app/main.py): the module-level model/metadata  *)
(* pair, load_model, and the request handlers /, /health, /predict,        *)
(* /predict_batch and /model_info.                                         *)
(*                                                                         *)
(* Conventions.                                                            *)
(*  - A Python Optional is a sequence of length <= 1: None is <<>> and a   *)
(*    value v is <<v>>.                                                    *)
(*  - A JSON object (Python dict) is a record carrying the set `keys` of   *)
(*    the keys it has; the fields of absent keys are never read.           *)
(*  - Feature values and probabilities are exact decimals scaled to        *)
(*    integers (tenths of a cm, hundredths of a probability).              *)
(*  - The artifact is opaque: what predict / predict_proba return, or      *)
(*    whether they raise, is chosen nondeterministically per request.      *)
(*  - The metadata file, when it parses, holds a JSON object.              *)
(***************************************************************************)
EXTENDS Integers, Sequences, FiniteSets, TLC

VARIABLES
  model,              \* the global `model`: None or the deserialised artifact
  metadata,           \* the global `metadata`: None or the parsed JSON object
  snapshot_metadata,  \* history: what the load call that assigned `model` read
                      \* from the metadata file (None if it read none)
  started,            \* whether the startup event has run
  startup_returned,   \* history: what load_model returned to the startup
                      \* event (None before it has run)
  request,            \* the last call: endpoint and body
  artifact,           \* the calls the last request made on the artifact
  response            \* what the last call returned

\* The endpoints and the status come first so that two states are compared
\* body with body only when the bodies are of the same kind.
vars ==
  <<request.endpoint, response.endpoint, response.status,
    model, metadata, snapshot_metadata, started, startup_returned,
    request, artifact, response>>

\* Longest request body of /predict_batch that is explored.
MaxBatch == 2

None == <<>>

Some(v) == <<v>>

---------------------------------------------------------------------------
(* The files load_model reads.                                             *)

\* What joblib.load can return: two distinguishable trained artifacts.
Artifacts == {"rf_a", "rf_b"}

Dict(ks, tn) ==
  [keys |-> ks,
   model_type |-> "RandomForestClassifier",
   feature_names |-> <<"sepal length (cm)", "sepal width (cm)",
                       "petal length (cm)", "petal width (cm)">>,
   target_names |-> tn,
   n_estimators |-> 100,
   max_depth |-> 10]

AllKeys == {"feature_names", "target_names", "model_type", "n_estimators", "max_depth"}

IrisNames == <<"setosa", "versicolor", "virginica">>

\* The metadata file as the trainer writes it.
MetaFull == Dict(AllKeys, IrisNames)

\* A metadata file whose target_names is shorter than the artifact's classes.
MetaShort == Dict(AllKeys, <<"setosa">>)

\* A metadata file without the target_names key.
MetaNoTargets == Dict(AllKeys \ {"target_names"}, <<>>)

\* A metadata file holding the empty object {}.
MetaEmpty == Dict({}, <<>>)

MetadataFiles == {MetaFull, MetaShort, MetaNoTargets, MetaEmpty}

\* dict.get(key): the value, or None when the key is absent.
Get(d, k) == IF k \in d.keys THEN Some(d[k]) ELSE None

\* Python truthiness of the metadata global: None and {} are falsy.
Truthy(md) == md # None /\ md[1].keys # {}

---------------------------------------------------------------------------
(* Request bodies.                                                         *)

FieldNames == {"sepal_length", "sepal_width", "petal_length", "petal_width"}

ItemA == [sepal_length |-> 51, sepal_width |-> 35, petal_length |-> 14, petal_width |-> 2]

\* The boundary of ge=0: every field zero.
ItemZero == [sepal_length |-> 0, sepal_width |-> 0, petal_length |-> 0, petal_width |-> 0]

ItemNegative == [sepal_length |-> -10, sepal_width |-> 35, petal_length |-> 14, petal_width |-> 2]

ItemMissing == [sepal_length |-> 51, sepal_width |-> 35]

RawItems == {ItemA, ItemZero, ItemNegative, ItemMissing}

RECURSIVE SeqsUpTo(_, _)
SeqsUpTo(S, n) ==
  IF n = 0 THEN {<<>>}
  ELSE LET shorter == SeqsUpTo(S, n - 1)
       IN shorter \cup {Append(s, x) : s \in {t \in shorter : Len(t) = n - 1}, x \in S}

BatchBodies == SeqsUpTo(RawItems, MaxBatch)

\* Mutant of IrisFeatures: the ge=0 constraint is dropped.
IrisFeatures_without_ge(raw) == FieldNames \subseteq DOMAIN raw

\* IrisFeatures: every field required (Field(...)) and >= 0 (ge=0).
IrisFeatures(raw) ==
  /\ FieldNames \subseteq DOMAIN raw
  /\ \A f \in FieldNames : raw[f] >= 0

\* List[IrisFeatures]: the body is accepted only if every item is.
IrisFeaturesList(body) == \A i \in 1..Len(body) : IrisFeatures(body[i])

\* The row the handlers build for one item.
FeatureValues(features) ==
  <<features.sepal_length, features.sepal_width,
    features.petal_length, features.petal_width>>

\* The features dict the handlers echo.
FeatureDict(features) ==
  [sepal_length |-> features.sepal_length,
   sepal_width |-> features.sepal_width,
   petal_length |-> features.petal_length,
   petal_width |-> features.petal_width]

---------------------------------------------------------------------------
(* The opaque artifact.                                                    *)

\* What the artifact can answer for one row: the class index of predict and
\* the probability row of predict_proba.  In the first the predicted index is
\* not the row's maximum; in the second it is the last class.
RowOutputs ==
  {[prediction |-> 0, probabilities |-> <<30, 50, 20>>],
   [prediction |-> 2, probabilities |-> <<10, 25, 65>>]}

RECURSIVE SeqsOfLen(_, _)
SeqsOfLen(S, n) ==
  IF n = 0 THEN {<<>>}
  ELSE {Append(s, x) : s \in SeqsOfLen(S, n - 1), x \in S}

\* Every behaviour of the artifact on a matrix of n rows: predict raises,
\* predict_proba raises, or both return n rows.
ArtifactBehaviours(n) ==
  {[raised |-> "predict", rows |-> <<>>], [raised |-> "predict_proba", rows |-> <<>>]}
  \cup {[raised |-> "none", rows |-> r] : r \in SeqsOfLen(RowOutputs, n)}

NotInvoked ==
  [predict_calls |-> <<>>, predict_proba_calls |-> <<>>, raised |-> "none", rows |-> <<>>]

\* Mutant of Invoked: a predict that raised is called a second time.
Invoked_retrying(X, out) ==
  [predict_calls |-> IF out.raised = "predict" THEN <<X, X>> ELSE <<X>>,
   predict_proba_calls |-> IF out.raised = "predict" THEN <<>> ELSE <<X>>,
   raised |-> out.raised,
   rows |-> out.rows]

\* The calls a handler makes on the artifact with matrix X, given how it behaves.
Invoked(X, out) ==
  [predict_calls |-> <<X>>,
   predict_proba_calls |-> IF out.raised = "predict" THEN <<>> ELSE <<X>>,
   raised |-> out.raised,
   rows |-> out.rows]

---------------------------------------------------------------------------
(* Responses.                                                              *)

Response(endpoint, status, detail, body) ==
  [endpoint |-> endpoint, status |-> status, detail |-> detail, body |-> body]

Request(endpoint, body) == [endpoint |-> endpoint, body |-> body]

Idle == Response("none", 0, "", None)

Ok(v) == [raised |-> "", value |-> v]

Raise(message) == [raised |-> message, value |-> None]

\* Mutant of ModelLoaded: the availability check is missing.
ModelLoaded_unchecked == TRUE

\* `model is not None`
ModelLoaded == model # None

\* The predicted class name: metadata["target_names"][prediction] when the
\* metadata is truthy and has the key, else f"class_{prediction}".  Indexing a
\* list past its end raises IndexError.
PredictedClass(md, prediction) ==
  IF Truthy(md) /\ "target_names" \in md[1].keys
  THEN IF prediction < Len(md[1].target_names)
       THEN Ok(md[1].target_names[prediction + 1])
       ELSE Raise("list index out of range")
  ELSE Ok("class_" \o ToString(prediction))

\* Mutant of Probability: the row's maximum instead of the predicted entry.
Probability_row_maximum(probabilities, prediction) ==
  Ok(CHOOSE x \in {probabilities[i] : i \in 1..Len(probabilities)} :
       \A i \in 1..Len(probabilities) : probabilities[i] <= x)

\* float(probabilities[prediction])
Probability(probabilities, prediction) ==
  IF prediction < Len(probabilities)
  THEN Ok(probabilities[prediction + 1])
  ELSE Raise("index out of bounds")

\* One labelled result from one row of the artifact's output.
PredictionResult(md, features, row) ==
  LET predicted_class == PredictedClass(md, row.prediction)
      probability == Probability(row.probabilities, row.prediction)
  IN IF predicted_class.raised # "" THEN predicted_class
     ELSE IF probability.raised # "" THEN probability
     ELSE Ok([prediction |-> predicted_class.value,
              probability |-> probability.value,
              features |-> FeatureDict(features)])

\* The body of /predict after the availability check (the try block).
PredictResponse(md, features, out) ==
  IF out.raised # "none"
  THEN Response("/predict", 500, "Prediction failed: artifact error", None)
  ELSE LET r == PredictionResult(md, features, out.rows[1])
       IN IF r.raised # ""
          THEN Response("/predict", 500, "Prediction failed: " \o r.raised, None)
          ELSE Response("/predict", 200, "", r.value)

\* The matrix /predict_batch builds from the ordered feature list.
Matrix(features_list) == [i \in 1..Len(features_list) |-> FeatureValues(features_list[i])]

\* Mutant of BatchEntry: the features echoed are those of the loop variable
\* left over from building the matrix, i.e. of the last item.
BatchEntry_stale_loop_variable(features_list, i, r) ==
  [sample_id |-> i - 1,
   prediction |-> r.prediction,
   probability |-> r.probability,
   features |-> FeatureDict(features_list[Len(features_list)])]

\* Mutant of BatchEntry: every entry echoes the first item.
BatchEntry_first_item(features_list, i, r) ==
  [sample_id |-> i - 1,
   prediction |-> r.prediction,
   probability |-> r.probability,
   features |-> FeatureDict(features_list[1])]

\* Entry i (1-based here, sample_id i - 1) of the batch results.
BatchEntry(features_list, i, r) ==
  [sample_id |-> i - 1,
   prediction |-> r.prediction,
   probability |-> r.probability,
   features |-> FeatureDict(features_list[i])]

\* The body of /predict_batch after the availability check (the try block):
\* zip pairs the rows of predictions and probabilities; the first row whose
\* label cannot be resolved aborts the whole request.
BatchResponse(md, features_list, out) ==
  IF out.raised # "none"
  THEN Response("/predict_batch", 500, "Batch prediction failed: artifact error", None)
  ELSE LET result(i) == PredictionResult(md, features_list[i], out.rows[i])
           failing == {i \in 1..Len(out.rows) : result(i).raised # ""}
       IN IF failing # {}
          THEN LET first == CHOOSE i \in failing : \A j \in failing : i <= j
               IN Response("/predict_batch", 500,
                           "Batch prediction failed: " \o result(first).raised, None)
          ELSE Response("/predict_batch", 200, "",
                        [predictions |->
                           [i \in 1..Len(out.rows) |->
                              BatchEntry(features_list, i, result(i).value)]])

\* The model_info of /health: built only when the metadata is truthy.
HealthModelInfo(md) ==
  IF Truthy(md)
  THEN Some([model_type |-> Get(md[1], "model_type"),
             feature_names |-> Get(md[1], "feature_names"),
             target_names |-> Get(md[1], "target_names")])
  ELSE None

\* Mutant of HealthResponse: readiness derived from the metadata global.
HealthResponse_from_metadata(m, md) ==
  [status |-> IF md # None THEN "healthy" ELSE "unhealthy",
   model_loaded |-> md # None,
   model_info |-> HealthModelInfo(md)]

HealthResponse(m, md) ==
  [status |-> IF m # None THEN "healthy" ELSE "unhealthy",
   model_loaded |-> m # None,
   model_info |-> HealthModelInfo(md)]

\* /model_info: 503 only when `metadata is None`.
ModelInfoResponse(md) ==
  IF md = None
  THEN Response("/model_info", 503, "Model metadata not available", None)
  ELSE Response("/model_info", 200, "",
                [model_type |-> Get(md[1], "model_type"),
                 feature_names |-> Get(md[1], "feature_names"),
                 target_names |-> Get(md[1], "target_names"),
                 model_parameters |-> [n_estimators |-> Get(md[1], "n_estimators"),
                                       max_depth |-> Get(md[1], "max_depth")]])

---------------------------------------------------------------------------
(* load_model.                                                             *)

\* What the file system and the two parsers can do during one load: the
\* artifact file is absent; joblib.load raises; or it returns an artifact and
\* the metadata file is absent, fails to open or parse, or parses.
LoadInputs ==
  {[step |-> "model_missing", loaded |-> None, parsed |-> None],
   [step |-> "joblib_raises", loaded |-> None, parsed |-> None]}
  \cup {[step |-> s, loaded |-> Some(a), parsed |-> None] :
          s \in {"metadata_missing", "json_raises"}, a \in Artifacts}
  \cup {[step |-> "loaded", loaded |-> Some(a), parsed |-> Some(d)] :
          a \in Artifacts, d \in MetadataFiles}

\* The globals after load_model and its return value.  `model` is assigned as
\* soon as joblib.load returns; `metadata` only when the file exists and parses.
LoadModel(m, md, seen, in) ==
  IF in.step \in {"model_missing", "joblib_raises"}
  THEN [model |-> m, metadata |-> md, snapshot_metadata |-> seen, returned |-> FALSE]
  ELSE IF in.step = "metadata_missing"
  THEN [model |-> in.loaded, metadata |-> md,
        snapshot_metadata |-> None, returned |-> TRUE]
  ELSE IF in.step = "json_raises"
  THEN [model |-> in.loaded, metadata |-> md,
        snapshot_metadata |-> None, returned |-> FALSE]
  ELSE [model |-> in.loaded, metadata |-> in.parsed,
        snapshot_metadata |-> in.parsed, returned |-> TRUE]

Load(endpoint) ==
  \E in \in LoadInputs :
    LET after == LoadModel(model, metadata, snapshot_metadata, in)
    IN /\ model' = after.model
       /\ metadata' = after.metadata
       /\ snapshot_metadata' = after.snapshot_metadata
       /\ request' = Request(endpoint, in.step)
       /\ artifact' = NotInvoked
       /\ response' = Response(endpoint, 0, "", after.returned)

---------------------------------------------------------------------------
(* The state machine.                                                      *)

Init ==
  /\ model = None
  /\ metadata = None
  /\ snapshot_metadata = None
  /\ started = FALSE
  /\ startup_returned = None
  /\ request = Request("none", None)
  /\ artifact = NotInvoked
  /\ response = Idle

\* The startup event: one call of load_model, whose result is discarded.
startup_event ==
  /\ ~started
  /\ started' = TRUE
  /\ Load("startup")
  /\ startup_returned' = Some(response'.body)

\* A direct call of load_model (as the tests make).
load_model ==
  /\ Load("load_model")
  /\ UNCHANGED <<started, startup_returned>>

root ==
  /\ request' = Request("/", None)
  /\ artifact' = NotInvoked
  /\ response' = Response("/", 200, "",
                          [message |-> "Iris ML Service", version |-> "1.0.0", docs |-> "/docs"])
  /\ UNCHANGED <<model, metadata, snapshot_metadata, started, startup_returned>>

health_check ==
  /\ request' = Request("/health", None)
  /\ artifact' = NotInvoked
  /\ response' = Response("/health", 200, "", HealthResponse(model, metadata))
  /\ UNCHANGED <<model, metadata, snapshot_metadata, started, startup_returned>>

\* The framework validates the body against IrisFeatures before it calls the
\* handler; an invalid body is answered 422 and the handler never runs.
predict ==
  \E raw \in RawItems :
    /\ request' = Request("/predict", raw)
    /\ UNCHANGED <<model, metadata, snapshot_metadata, started, startup_returned>>
    /\ IF ~IrisFeatures(raw)
       THEN /\ artifact' = NotInvoked
            /\ response' = Response("/predict", 422, "validation error", None)
       ELSE IF ~ModelLoaded
       THEN /\ artifact' = NotInvoked
            /\ response' = Response("/predict", 503, "Model not loaded", None)
       ELSE \E out \in ArtifactBehaviours(1) :
              /\ artifact' = Invoked(<<FeatureValues(raw)>>, out)
              /\ response' = PredictResponse(metadata, raw, out)

predict_batch ==
  \E body \in BatchBodies :
    /\ request' = Request("/predict_batch", body)
    /\ UNCHANGED <<model, metadata, snapshot_metadata, started, startup_returned>>
    /\ IF ~IrisFeaturesList(body)
       THEN /\ artifact' = NotInvoked
            /\ response' = Response("/predict_batch", 422, "validation error", None)
       ELSE IF ~ModelLoaded
       THEN /\ artifact' = NotInvoked
            /\ response' = Response("/predict_batch", 503, "Model not loaded", None)
       ELSE \E out \in ArtifactBehaviours(Len(body)) :
              /\ artifact' = Invoked(Matrix(body), out)
              /\ response' = BatchResponse(metadata, body, out)

\* Mutant of get_model_info: the handler clears the metadata global.
get_model_info_clearing ==
  /\ request' = Request("/model_info", None)
  /\ artifact' = NotInvoked
  /\ response' = ModelInfoResponse(metadata)
  /\ metadata' = None
  /\ UNCHANGED <<model, snapshot_metadata, started, startup_returned>>

get_model_info ==
  /\ request' = Request("/model_info", None)
  /\ artifact' = NotInvoked
  /\ response' = ModelInfoResponse(metadata)
  /\ UNCHANGED <<model, metadata, snapshot_metadata, started, startup_returned>>

Next ==
  \/ startup_event
  \/ load_model
  \/ root
  \/ health_check
  \/ predict
  \/ predict_batch
  \/ get_model_info

Spec == Init /\ [][Next]_vars

\* The running service: the startup event completes before any request is
\* served, and load_model has no other caller.
Serving ==
  /\ started
  /\ \/ root
     \/ health_check
     \/ predict
     \/ predict_batch
     \/ get_model_info

NextService ==
  \/ startup_event
  \/ Serving

SpecService == Init /\ [][NextService]_vars

---------------------------------------------------------------------------
(* Vocabulary of the properties, stated independently of the handlers.     *)

IsPrediction == response.endpoint \in {"/predict", "/predict_batch"}

IsLoad == response.endpoint \in {"load_model", "startup"}

\* An item with a missing field or a field < 0.
ItemInvalid(raw) ==
  \/ \E f \in FieldNames : f \notin DOMAIN raw
  \/ \E f \in DOMAIN raw : raw[f] < 0

\* The items of the last prediction request, in order.
RequestItems == IF request.endpoint = "/predict" THEN <<request.body>> ELSE request.body

BodyInvalid == \E k \in 1..Len(RequestItems) : ItemInvalid(RequestItems[k])

\* The results of the last successful prediction request, in order.
ResponseItems ==
  IF response.endpoint = "/predict" THEN <<response.body>> ELSE response.body.predictions

ArtifactUntouched == artifact.predict_calls = <<>> /\ artifact.predict_proba_calls = <<>>

\* The visible metadata carries target_names.
CarriesTargetNames == metadata # None /\ "target_names" \in metadata[1].keys

\* The artifact answered the last request, emitting class index c for row k.
Emitted(k) == artifact.rows[k].prediction

Answered == IsPrediction /\ artifact.predict_calls # <<>> /\ artifact.raised = "none"

\* Class index c is a valid index of the visible target_names.
InRange(c) == c < Len(metadata[1].target_names)

\* The label the claims expect for class index c.
ExpectedLabel(c) ==
  IF CarriesTargetNames THEN metadata[1].target_names[c + 1] ELSE "class_" \o ToString(c)

\* Result r echoes item raw and carries what row `row` of the artifact says.
Derived(r, raw, row) ==
  /\ r.prediction = ExpectedLabel(row.prediction)
  /\ r.probability = row.probabilities[row.prediction + 1]
  /\ \A f \in FieldNames : r.features[f] = raw[f]
  /\ DOMAIN r.features = FieldNames

---------------------------------------------------------------------------
(* Properties.                                                             *)

\* C1: whenever no model is loaded, /predict and /predict_batch with a
\* schema-valid body return 503 "Model not loaded" and neither predict nor
\* predict_proba of the artifact is invoked for that request.
C1_NoModelIs503 ==
  (IsPrediction /\ model = None /\ ~BodyInvalid) =>
    /\ response.status = 503
    /\ response.detail = "Model not loaded"
    /\ ArtifactUntouched

C1_Witness ==
  /\ response.endpoint = "/predict_batch"
  /\ model = None
  /\ request.body = <<ItemA, ItemZero>>
  /\ response.status = 503

\* C2: a /predict or /predict_batch body in which any item has a missing
\* field or a field < 0 is rejected as a whole with 422: the artifact is not
\* invoked, no results are returned, and this is so whether or not a model is
\* loaded (422, not 503, when none is).
C2_InvalidIs422 ==
  (IsPrediction /\ BodyInvalid) =>
    /\ response.status = 422
    /\ response.body = None
    /\ ArtifactUntouched

C2_Witness ==
  /\ response.endpoint = "/predict_batch"
  /\ request.body = <<ItemA, ItemNegative>>
  /\ model = None
  /\ response.status = 422

\* C3: for a valid batch of n items with a model loaded, answered by the
\* artifact with class indices the visible target_names resolve, the response
\* is 200 with exactly n predictions; entry k (from 0) has sample_id k, echoes
\* item k and carries the label and probability of row k of the artifact's
\* output, whatever the order of the items; predict and predict_proba are each
\* called once, on the whole matrix.
C3_BatchOrder ==
  (/\ response.endpoint = "/predict_batch"
   /\ Answered
   /\ \A k \in 1..Len(artifact.rows) : CarriesTargetNames => InRange(Emitted(k))) =>
    /\ response.status = 200
    /\ Len(response.body.predictions) = Len(request.body)
    /\ \A k \in 1..Len(request.body) :
         /\ response.body.predictions[k].sample_id = k - 1
         /\ Derived(response.body.predictions[k], request.body[k], artifact.rows[k])
    /\ artifact.predict_calls = <<[k \in 1..Len(request.body) |-> FeatureValues(request.body[k])]>>
    /\ artifact.predict_proba_calls = artifact.predict_calls

C3_Witness ==
  /\ response.endpoint = "/predict_batch"
  /\ response.status = 200
  /\ request.body = <<ItemZero, ItemA>>
  /\ metadata = Some(MetaFull)
  /\ Emitted(1) = 2
  /\ Emitted(2) = 0
  /\ response.body.predictions[1].prediction = "virginica"
  /\ response.body.predictions[2].features = ItemA

\* C4: for /predict with a model loaded and a valid input, when the artifact
\* predicts class index c with probability row p and c indexes the visible
\* target_names, the response is 200 with prediction = target_names[c] (when
\* the metadata carries target_names), probability = p[c] and features equal
\* to the four input values.
C4_PredictOne ==
  (/\ response.endpoint = "/predict"
   /\ Answered
   /\ CarriesTargetNames => InRange(Emitted(1))) =>
    /\ response.status = 200
    /\ Derived(response.body, request.body, artifact.rows[1])

C4_Witness ==
  /\ response.endpoint = "/predict"
  /\ response.status = 200
  /\ request.body = ItemA
  /\ metadata = Some(MetaFull)
  /\ artifact.rows[1] = [prediction |-> 0, probabilities |-> <<30, 50, 20>>]
  /\ response.body = [prediction |-> "setosa", probability |-> 30, features |-> ItemA]

\* C5: in every reachable state /health returns 200 with model_loaded true
\* exactly when a model is loaded and status "healthy" exactly when
\* model_loaded is true, otherwise "unhealthy"; it never invokes the artifact.
C5_Health ==
  response.endpoint = "/health" =>
    /\ response.status = 200
    /\ response.body.model_loaded = (model # None)
    /\ response.body.status = (IF response.body.model_loaded THEN "healthy" ELSE "unhealthy")
    /\ ArtifactUntouched

C5_Witness ==
  /\ response.endpoint = "/health"
  /\ model # None
  /\ metadata = None
  /\ response.body.model_loaded
  /\ response.body.status = "healthy"

\* C6 (as claimed): /model_info fails with 503 "Model metadata not available"
\* whenever no model is loaded or the loaded snapshot has no metadata (file
\* absent, or empty metadata), and otherwise returns 200 with the fields of
\* the loaded metadata.
C6_ModelInfo ==
  response.endpoint = "/model_info" =>
    IF model = None \/ snapshot_metadata = None \/ snapshot_metadata[1].keys = {}
    THEN response.status = 503 /\ response.detail = "Model metadata not available"
    ELSE /\ response.status = 200
         /\ response.body.model_type = Get(snapshot_metadata[1], "model_type")
         /\ response.body.feature_names = Get(snapshot_metadata[1], "feature_names")
         /\ response.body.target_names = Get(snapshot_metadata[1], "target_names")
         /\ response.body.model_parameters.n_estimators = Get(snapshot_metadata[1], "n_estimators")
         /\ response.body.model_parameters.max_depth = Get(snapshot_metadata[1], "max_depth")

\* C7 (as claimed): a call of load_model that returns False leaves model and
\* metadata exactly as they were before the call.
C7_FailedLoadKeepsSnapshot ==
  [][(IsLoad' /\ response'.body = FALSE) => (model' = model /\ metadata' = metadata)]_vars

\* C8 (as claimed): in every state a handler can observe, the visible metadata
\* is what the load call that produced the visible model read (empty if that
\* call read no metadata file), never metadata left over from an earlier load.
C8_PairPublishedAsUnit ==
  model # None =>
    IF snapshot_metadata = None
    THEN metadata = None \/ metadata[1].keys = {}
    ELSE metadata = snapshot_metadata

\* C9 (as claimed): when the artifact emits a class index that is not a valid
\* index of the loaded target_names, /predict and /predict_batch answer 200
\* and label that row "class_<c>".
C9_OutOfRangeFallsBack ==
  (/\ Answered
   /\ CarriesTargetNames
   /\ \E k \in 1..Len(artifact.rows) : ~InRange(Emitted(k))) =>
    /\ response.status = 200
    /\ \A k \in 1..Len(artifact.rows) :
         ~InRange(Emitted(k)) =>
           ResponseItems[k].prediction = "class_" \o ToString(Emitted(k))

\* C10 (as claimed): a load that finds the artifact file and no metadata file
\* returns True and leaves a loaded model with no metadata visible (so that
\* /health shows no model_info and labels are "class_<c>").
C10_LoadWithoutMetadataFile ==
  [][(IsLoad' /\ request'.body = "metadata_missing") =>
       /\ response'.body = TRUE
       /\ model' # None
       /\ metadata' = None \/ metadata'[1].keys = {}]_vars

\* The endpoints served by request handlers.
HandlerEndpoints == {"/", "/health", "/predict", "/predict_batch", "/model_info"}

\* C11: with a model loaded, a failure raised by predict or predict_proba
\* during /predict or /predict_batch is answered 500 with a detail naming the
\* failure; predict is called once and predict_proba at most once (no retry),
\* no results are returned, and model and metadata are left unchanged.
C11_ArtifactFailureIs500 ==
  [][(IsPrediction' /\ artifact'.raised # "none") =>
       /\ response'.status = 500
       /\ response'.detail =
            (IF response'.endpoint = "/predict"
             THEN "Prediction failed: " ELSE "Batch prediction failed: ") \o "artifact error"
       /\ response'.body = None
       /\ Len(artifact'.predict_calls) = 1
       /\ Len(artifact'.predict_proba_calls) <= 1
       /\ model' = model /\ model' # None
       /\ metadata' = metadata]_vars

C11_Witness ==
  /\ response.endpoint = "/predict_batch"
  /\ response.status = 500
  /\ artifact.raised = "predict_proba"
  /\ request.body = <<ItemA, ItemZero>>
  /\ metadata = Some(MetaFull)

\* C12 (as claimed): whenever the artifact file exists and deserialising it
\* succeeds, load_model returns True and a model is loaded afterwards,
\* whatever happens while locating or reading the metadata file.
C12_LoadSucceedsOnceDeserialised ==
  [][(IsLoad' /\ request'.body \in {"metadata_missing", "json_raises", "loaded"}) =>
       /\ response'.body = TRUE
       /\ model' # None]_vars

\* C13 (as claimed): in the running service, once the startup load has
\* failed the model stays unloaded in every later state: every /health
\* reports unhealthy and every valid /predict and /predict_batch returns 503.
C13_FailedStartupStaysUnready ==
  startup_returned = Some(FALSE) =>
    /\ model = None
    /\ response.endpoint = "/health" =>
         response.body.status = "unhealthy" /\ ~response.body.model_loaded
    /\ (IsPrediction /\ ~BodyInvalid) => response.status = 503

\* C14: every request handler, whether it ends in 200, 422, 500 or 503,
\* leaves model and metadata unchanged; only load_model writes them.
C14_HandlersKeepSnapshot ==
  [][(response'.endpoint \in HandlerEndpoints) =>
       (model' = model /\ metadata' = metadata)]_vars

C14_Witness ==
  /\ response.endpoint = "/model_info"
  /\ response.status = 200
  /\ model = Some("rf_b")
  /\ metadata = Some(MetaFull)

====
